---- MODULE Spec2Model ----
(***************************************************************************)
(* Model of lib/hashserv/__init__.py: the schema set up by setup_database, *)
(* the address grammar of parse_address, and the create_server /           *)
(* create_client / create_async_client factories.                          *)
(*                                                                         *)
(* Text is modelled as a sequence of one-character strings, so that        *)
(* startswith, split, the regular expression and int() are computed on the *)
(* characters as Python computes them.                                     *)
(***************************************************************************)
EXTENDS Integers, Sequences, FiniteSets, TLC

VARIABLES
    op,       \* which entry point is running: "none", "parse", "store", "server", "client", "async"
    addr,     \* the addr argument (text)
    pc,       \* position inside the running entry point
    parsed,   \* value of (typ, a) = parse_address(addr), or the exception it raised
    calls,    \* collaborator hooks invoked so far, in order
    hookOk,   \* whether the collaborator's start/connect call will succeed
    dbOpens,  \* whether sqlite3.connect(dbname) can open the store
    sync,     \* the sync argument of setup_database
    db,       \* the sqlite store behind dbname
    stmt,     \* how many statements of setup_database have been executed
    raised,   \* the exception that reached the caller, "" when none did
    last      \* the last store operation: its values, its error, the store before it

vars == <<op, addr, pc, parsed, calls, hookOk, dbOpens, sync, db, stmt, raised, last>>

----------------------------------------------------------------------------
(* Bounds of the model *)

\* longest address text without a recognised prefix
MaxLen == 5
\* longest text following a prefix
MaxTail == 2

----------------------------------------------------------------------------
(* Text *)

\* the characters addresses are drawn from
Alphabet == {"[", "]", ":", "1", "a", "-", "\n"}

Digits == {"0", "1", "2", "3", "4", "5", "6", "7", "8", "9"}

DigitVal(c) ==
    CASE c = "0" -> 0 [] c = "1" -> 1 [] c = "2" -> 2 [] c = "3" -> 3
      [] c = "4" -> 4 [] c = "5" -> 5 [] c = "6" -> 6 [] c = "7" -> 7
      [] c = "8" -> 8 [] c = "9" -> 9

\* str.isspace() characters that can occur in the model's texts
Whitespace == {" ", "\n", "\t", "\r"}

StrUpTo(n) == UNION {[1..k -> Alphabet] : k \in 0..n}

UNIX_PREFIX == <<"u", "n", "i", "x", ":", "/", "/">>
WS_PREFIX == <<"w", "s", ":", "/", "/">>
WSS_PREFIX == <<"w", "s", "s", ":", "/", "/">>

ADDR_TYPE_UNIX == 0
ADDR_TYPE_TCP == 1
ADDR_TYPE_WS == 2

\* str.startswith
StartsWith(s, p) == Len(s) >= Len(p) /\ SubSeq(s, 1, Len(p)) = p

\* s[n:], the text after the first n characters
From(s, n) == SubSeq(s, n + 1, Len(s))

\* positions of character c in s
Positions(s, c) == {i \in 1..Len(s) : s[i] = c}

Min(S) == CHOOSE x \in S : \A y \in S : x <= y
Max(S) == CHOOSE x \in S : \A y \in S : x >= y

\* str.split(sep) for a one-character separator: the parts between the separators
RECURSIVE Split(_, _)
Split(s, sep) ==
    IF Positions(s, sep) = {} THEN <<s>>
    ELSE LET i == Min(Positions(s, sep))
         IN <<SubSeq(s, 1, i - 1)>> \o Split(From(s, i), sep)

\* value of a text of decimal digits
RECURSIVE DecimalValue(_)
DecimalValue(s) ==
    IF s = <<>> THEN 0
    ELSE 10 * DecimalValue(SubSeq(s, 1, Len(s) - 1)) + DigitVal(s[Len(s)])

\* str.isdigit() on an ASCII text
AllDigits(s) == s # <<>> /\ \A i \in 1..Len(s) : s[i] \in Digits

\* str.strip(): leading and trailing whitespace removed
Strip(s) ==
    LET keep == {i \in 1..Len(s) : s[i] \notin Whitespace}
    IN IF keep = {} THEN <<>> ELSE SubSeq(s, Min(keep), Max(keep))

\* the digits of s with the underscores removed
RECURSIVE DropUnderscores(_)
DropUnderscores(s) ==
    IF s = <<>> THEN <<>>
    ELSE IF s[1] = "_" THEN DropUnderscores(From(s, 1))
    ELSE <<s[1]>> \o DropUnderscores(From(s, 1))

\* whether the text, after an optional sign, is what int() accepts: digits,
\* with single underscores allowed between digits
IntBodyOk(b) ==
    /\ b # <<>>
    /\ \A i \in 1..Len(b) : b[i] \in Digits \cup {"_"}
    /\ b[1] \in Digits
    /\ b[Len(b)] \in Digits
    /\ \A i \in 1..(Len(b) - 1) : ~(b[i] = "_" /\ b[i + 1] = "_")

\* int(text): [ok |-> TRUE, val |-> n], or ok = FALSE for ValueError
PyInt(text) ==
    LET t == Strip(text)
        signed == t # <<>> /\ t[1] \in {"+", "-"}
        body == IF signed THEN From(t, 1) ELSE t
    IN IF IntBodyOk(body)
       THEN [ok |-> TRUE,
             val |-> IF signed /\ t[1] = "-"
                     THEN 0 - DecimalValue(DropUnderscores(body))
                     ELSE DecimalValue(DropUnderscores(body))]
       ELSE [ok |-> FALSE, val |-> 0]

----------------------------------------------------------------------------
(* parse_address *)

\* end of the run of digits that starts at position i (i - 1 when there is none)
DigitRunEnd(s, i) ==
    LET stops == {j \in i..Len(s) : s[j] \notin Digits}
    IN IF stops = {} THEN Len(s) ELSE Min(stops) - 1

\* where the pattern's $ matches: at the end of the text, or just before a
\* newline that is the last character
AtDollar(s, e) == e = Len(s) \/ (e = Len(s) - 1 /\ s[Len(s)] = "\n")

\* the pattern with the brackets inside the host group
ReMatchKeepsBrackets(s) ==
    IF Len(s) >= 1 /\ s[1] = "[" /\ Positions(s, "]") # {}
    THEN LET k == Min(Positions(s, "]"))
             e == DigitRunEnd(s, k + 2)
         IN IF /\ Len(s) >= k + 2
               /\ s[k + 1] = ":"
               /\ e >= k + 2
               /\ AtDollar(s, e)
            THEN [matched |-> TRUE, host |-> SubSeq(s, 1, k), port |-> SubSeq(s, k + 2, e)]
            ELSE [matched |-> FALSE, host |-> <<>>, port |-> <<>>]
    ELSE [matched |-> FALSE, host |-> <<>>, port |-> <<>>]

\* re.match(r'\[(?P<host>[^\]]*)\]:(?P<port>\d+)$', addr):
\* [matched, host, port]
ReMatch(s) ==
    IF Len(s) >= 1 /\ s[1] = "[" /\ Positions(s, "]") # {}
    THEN LET k == Min(Positions(s, "]"))
             e == DigitRunEnd(s, k + 2)
         IN IF /\ Len(s) >= k + 2
               /\ s[k + 1] = ":"
               /\ e >= k + 2
               /\ AtDollar(s, e)
            THEN [matched |-> TRUE, host |-> SubSeq(s, 2, k - 1), port |-> SubSeq(s, k + 2, e)]
            ELSE [matched |-> FALSE, host |-> <<>>, port |-> <<>>]
    ELSE [matched |-> FALSE, host |-> <<>>, port |-> <<>>]

\* before parse_address has been called
NotParsed == [exc |-> "unset", typ |-> -1, a |-> <<>>]

\* the value a raising call leaves in place of a result
Raised(e) == [exc |-> e, typ |-> -1, a |-> <<>>]
Returned(t, params) == [exc |-> "none", typ |-> t, a |-> params]

\* the split taken at the last colon only, as rsplit(':', 1) would
ParseTcpRightSplit(s) ==
    LET ps == Positions(s, ":")
    IN IF ps = {} THEN Raised("ValueError")
       ELSE LET i == Max(ps)
                n == PyInt(From(s, i))
            IN IF n.ok THEN Returned(ADDR_TYPE_TCP, <<SubSeq(s, 1, i - 1), n.val>>)
               ELSE Raised("ValueError")

\* host, port = addr.split(':') followed by int(port)
ParseTcpSplit(s) ==
    LET parts == Split(s, ":")
    IN IF Len(parts) # 2 THEN Raised("ValueError")
       ELSE LET n == PyInt(parts[2])
            IN IF n.ok THEN Returned(ADDR_TYPE_TCP, <<parts[1], n.val>>)
               ELSE Raised("ValueError")

ParseTcp(s) ==
    LET m == ReMatch(s)
    IN IF m.matched
       THEN Returned(ADDR_TYPE_TCP, <<m.host, PyInt(m.port).val>>)
       ELSE ParseTcpSplit(s)

\* parse_address returning the websocket address without its scheme
ParseAddressStripsScheme(s) ==
    IF StartsWith(s, UNIX_PREFIX)
    THEN Returned(ADDR_TYPE_UNIX, <<From(s, Len(UNIX_PREFIX))>>)
    ELSE IF StartsWith(s, WS_PREFIX)
    THEN Returned(ADDR_TYPE_WS, <<From(s, Len(WS_PREFIX))>>)
    ELSE IF StartsWith(s, WSS_PREFIX)
    THEN Returned(ADDR_TYPE_WS, <<From(s, Len(WSS_PREFIX))>>)
    ELSE ParseTcp(s)

parse_address(s) ==
    IF StartsWith(s, UNIX_PREFIX)
    THEN Returned(ADDR_TYPE_UNIX, <<From(s, Len(UNIX_PREFIX))>>)
    ELSE IF StartsWith(s, WS_PREFIX) \/ StartsWith(s, WSS_PREFIX)
    THEN Returned(ADDR_TYPE_WS, <<s>>)
    ELSE ParseTcp(s)

----------------------------------------------------------------------------
(* The store: sqlite tables, rows, indexes and pragmas *)

\* rows the store holds across its tables before inserts stop
MaxRows == 2

NULL == "NULL"

\* text values an inserted column can take
Values == {"a", "b"}

\* the definition with the unihash column flagged as well
UnihashDefinitionAllUnique == <<
    <<"method", "TEXT NOT NULL", "UNIQUE">>,
    <<"taskhash", "TEXT NOT NULL", "UNIQUE">>,
    <<"unihash", "TEXT NOT NULL", "UNIQUE">> >>

UNIHASH_TABLE_DEFINITION == <<
    <<"method", "TEXT NOT NULL", "UNIQUE">>,
    <<"taskhash", "TEXT NOT NULL", "UNIQUE">>,
    <<"unihash", "TEXT NOT NULL", "">> >>

\* the definition with the outhash column left out of the UNIQUE group
OuthashDefinitionPairUnique == <<
    <<"method", "TEXT NOT NULL", "UNIQUE">>,
    <<"taskhash", "TEXT NOT NULL", "UNIQUE">>,
    <<"outhash", "TEXT NOT NULL", "">>,
    <<"created", "DATETIME", "">>,
    <<"owner", "TEXT", "">>,
    <<"PN", "TEXT", "">>,
    <<"PV", "TEXT", "">>,
    <<"PR", "TEXT", "">>,
    <<"task", "TEXT", "">>,
    <<"outhash_siginfo", "TEXT", "">> >>

OUTHASH_TABLE_DEFINITION == <<
    <<"method", "TEXT NOT NULL", "UNIQUE">>,
    <<"taskhash", "TEXT NOT NULL", "UNIQUE">>,
    <<"outhash", "TEXT NOT NULL", "UNIQUE">>,
    <<"created", "DATETIME", "">>,
    <<"owner", "TEXT", "">>,
    <<"PN", "TEXT", "">>,
    <<"PV", "TEXT", "">>,
    <<"PR", "TEXT", "">>,
    <<"task", "TEXT", "">>,
    <<"outhash_siginfo", "TEXT", "">> >>

\* tuple(name for name, _, _ in definition)
ColumnsOf(definition) == [i \in 1..Len(definition) |-> definition[i][1]]

UNIHASH_TABLE_COLUMNS == ColumnsOf(UNIHASH_TABLE_DEFINITION)
OUTHASH_TABLE_COLUMNS == ColumnsOf(OUTHASH_TABLE_DEFINITION)

Range(f) == {f[i] : i \in DOMAIN f}

\* names of older schema generations that setup_database removes
LegacyIndexes == {"taskhash_lookup", "outhash_lookup", "taskhash_lookup_v2", "outhash_lookup_v2"}
LegacyTable == "tasks_v2"
\* a table of a still older generation, which setup_database leaves alone
OlderTable == "tasks_v1"

NoError == ""

\* a store file that does not exist yet: sqlite3.connect creates it empty
EmptyStore ==
    [tables |-> <<>>, rows |-> <<>>, seq |-> <<>>, indexes |-> <<>>,
     journal_mode |-> "delete", synchronous |-> "FULL", err |-> NoError]

\* f with key k mapped to v, and f without key k
Put(f, k, v) == [x \in (DOMAIN f) \cup {k} |-> IF x = k THEN v ELSE f[x]]
Drop(f, k) == [x \in (DOMAIN f) \ {k} |-> f[x]]

Fail(d, msg) == [d EXCEPT !.err = msg]

\* the schema sqlite records for the CREATE TABLE text that _make_table formats:
\* an autoincrement id, the named columns with their types, and one UNIQUE
\* constraint over the columns whose flags contain UNIQUE
TableSchema(definition) ==
    [columns |-> ColumnsOf(definition),
     notnull |-> {definition[i][1] : i \in {j \in 1..Len(definition) : definition[j][2] = "TEXT NOT NULL"}},
     unique  |-> {definition[i][1] : i \in {j \in 1..Len(definition) : definition[j][3] = "UNIQUE"}}]

\* CREATE TABLE without IF NOT EXISTS
MakeTableNoGuard(d, name, definition) ==
    IF name \in DOMAIN d.tables THEN Fail(d, "table already exists")
    ELSE IF name \in DOMAIN d.indexes THEN Fail(d, "there is already an index named so")
    ELSE [d EXCEPT !.tables = Put(d.tables, name, TableSchema(definition)),
                   !.rows = Put(d.rows, name, {}),
                   !.seq = Put(d.seq, name, 0)]

\* _make_table: CREATE TABLE IF NOT EXISTS name (...)
MakeTable(d, name, definition) ==
    IF name \in DOMAIN d.tables THEN d
    ELSE IF name \in DOMAIN d.indexes THEN Fail(d, "there is already an index named so")
    ELSE [d EXCEPT !.tables = Put(d.tables, name, TableSchema(definition)),
                   !.rows = Put(d.rows, name, {}),
                   !.seq = Put(d.seq, name, 0)]

\* PRAGMA key = value
Pragma(d, key, value) ==
    IF key = "journal_mode" THEN [d EXCEPT !.journal_mode = value]
    ELSE [d EXCEPT !.synchronous = value]

\* DROP INDEX IF EXISTS name
DropIndex(d, name) ==
    IF name \in DOMAIN d.indexes THEN [d EXCEPT !.indexes = Drop(d.indexes, name)] ELSE d

\* DROP TABLE IF EXISTS name: the table goes with its rows and its indexes
DropTable(d, name) ==
    IF name \in DOMAIN d.tables
    THEN [d EXCEPT !.tables = Drop(d.tables, name),
                   !.rows = Drop(d.rows, name),
                   !.seq = Drop(d.seq, name),
                   !.indexes = [x \in {i \in DOMAIN d.indexes : d.indexes[i].table # name} |-> d.indexes[x]]]
    ELSE d

\* CREATE INDEX IF NOT EXISTS name ON table (columns)
CreateIndex(d, name, table, columns) ==
    IF name \in DOMAIN d.indexes THEN d
    ELSE IF name \in DOMAIN d.tables THEN Fail(d, "there is already a table named so")
    ELSE IF table \notin DOMAIN d.tables THEN Fail(d, "no such table")
    ELSE IF ~(Range(columns) \subseteq Range(d.tables[table].columns)) THEN Fail(d, "no such column")
    ELSE [d EXCEPT !.indexes = Put(d.indexes, name, [table |-> table, columns |-> columns])]

\* sqlite3.connect(database): a new connection starts with the default
\* synchronous setting; the journal mode is kept in the store file
Connect(d) == [d EXCEPT !.synchronous = "FULL", !.err = NoError]

\* the statements setup_database executes, without the DROP TABLE
SetupStatementsKeepLegacyTable(s) == <<
    [kind |-> "make_table", name |-> "unihashes_v2", definition |-> UNIHASH_TABLE_DEFINITION],
    [kind |-> "make_table", name |-> "outhashes_v2", definition |-> OUTHASH_TABLE_DEFINITION],
    [kind |-> "pragma", name |-> "journal_mode", value |-> "WAL"],
    [kind |-> "pragma", name |-> "synchronous", value |-> IF s THEN "NORMAL" ELSE "OFF"],
    [kind |-> "drop_index", name |-> "taskhash_lookup"],
    [kind |-> "drop_index", name |-> "outhash_lookup"],
    [kind |-> "drop_index", name |-> "taskhash_lookup_v2"],
    [kind |-> "drop_index", name |-> "outhash_lookup_v2"],
    [kind |-> "create_index", name |-> "taskhash_lookup_v3", table |-> "unihashes_v2",
     columns |-> <<"method", "taskhash">>],
    [kind |-> "create_index", name |-> "outhash_lookup_v3", table |-> "outhashes_v2",
     columns |-> <<"method", "outhash">>] >>

\* the statements setup_database executes on its cursor, in order
SetupStatements(s) == <<
    [kind |-> "make_table", name |-> "unihashes_v2", definition |-> UNIHASH_TABLE_DEFINITION],
    [kind |-> "make_table", name |-> "outhashes_v2", definition |-> OUTHASH_TABLE_DEFINITION],
    [kind |-> "pragma", name |-> "journal_mode", value |-> "WAL"],
    [kind |-> "pragma", name |-> "synchronous", value |-> IF s THEN "NORMAL" ELSE "OFF"],
    [kind |-> "drop_index", name |-> "taskhash_lookup"],
    [kind |-> "drop_index", name |-> "outhash_lookup"],
    [kind |-> "drop_index", name |-> "taskhash_lookup_v2"],
    [kind |-> "drop_index", name |-> "outhash_lookup_v2"],
    [kind |-> "drop_table", name |-> "tasks_v2"],
    [kind |-> "create_index", name |-> "taskhash_lookup_v3", table |-> "unihashes_v2",
     columns |-> <<"method", "taskhash">>],
    [kind |-> "create_index", name |-> "outhash_lookup_v3", table |-> "outhashes_v2",
     columns |-> <<"method", "outhash">>] >>

\* cursor.execute(statement)
Execute(d, st) ==
    CASE st.kind = "make_table" -> MakeTable(d, st.name, st.definition)
      [] st.kind = "pragma" -> Pragma(d, st.name, st.value)
      [] st.kind = "drop_index" -> DropIndex(d, st.name)
      [] st.kind = "drop_table" -> DropTable(d, st.name)
      [] st.kind = "create_index" -> CreateIndex(d, st.name, st.table, st.columns)

\* the statements in order; the first one that raises ends the run
RECURSIVE Run(_, _)
Run(d, stmts) ==
    IF stmts = <<>> \/ d.err # NoError THEN d
    ELSE Run(Execute(d, Head(stmts)), SubSeq(stmts, 2, Len(stmts)))

\* setup_database(database, sync) on a store that can be opened
setup_database(d, s) == Run(Connect(d), SetupStatements(s))

\* INSERT INTO table (columns) VALUES (vals): NOT NULL is checked first, then
\* the UNIQUE constraint, in which a NULL never equals anything
InsertRow(d, table, vals) ==
    IF table \notin DOMAIN d.tables THEN Fail(d, "no such table")
    ELSE LET sch == d.tables[table]
         IN IF \E c \in sch.notnull : vals[c] = NULL
            THEN Fail(d, "NOT NULL constraint failed")
            ELSE IF \E r \in d.rows[table] : \A c \in sch.unique : vals[c] # NULL /\ r[c] = vals[c]
            THEN Fail(d, "UNIQUE constraint failed")
            ELSE LET id == d.seq[table] + 1
                     row == [c \in Range(sch.columns) \cup {"id"} |-> IF c = "id" THEN id ELSE vals[c]]
                 IN [d EXCEPT !.rows[table] = @ \cup {row}, !.seq[table] = id, !.err = NoError]

\* the values an insert into the unihash table can carry
UnihashInputs == [Range(UNIHASH_TABLE_COLUMNS) -> Values \cup {NULL}]

\* the values an insert into the outhash table can carry: the three required
\* columns vary, the created and provenance columns are left NULL
OuthashInputs ==
    {[c \in Range(OUTHASH_TABLE_COLUMNS) |-> IF c \in {"method", "taskhash", "outhash"} THEN k[c] ELSE NULL] :
        k \in [{"method", "taskhash", "outhash"} -> Values \cup {NULL}]}

\* stores left behind by older generations of the schema: the older tables,
\* with the old index names on them
LegacyStore(ts, rs, ix) ==
    [EmptyStore EXCEPT
        !.tables = [t \in ts |-> TableSchema(<< <<"method", "TEXT NOT NULL", "UNIQUE">> >>)],
        !.rows = [t \in ts |-> IF t = LegacyTable THEN rs ELSE {}],
        !.seq = [t \in ts |-> IF t = LegacyTable THEN Cardinality(rs) ELSE 0],
        !.indexes = [i \in DOMAIN ix |-> [table |-> ix[i], columns |-> <<"method">>]]]

LegacyStores ==
    UNION {UNION {{LegacyStore(ts, rs, ix) : rs \in {{}, {[id |-> 1, method |-> "a"]}}} :
                    ix \in UNION {[is -> ts] : is \in SUBSET LegacyIndexes}} :
             ts \in (SUBSET {LegacyTable, OlderTable}) \ {{}}}

RowCount(d) ==
    LET n(t) == IF t \in DOMAIN d.rows THEN Cardinality(d.rows[t]) ELSE 0
    IN n("unihashes_v2") + n("outhashes_v2")

----------------------------------------------------------------------------
(* Specification of the store: opens and inserts against one path *)

NoOperation == [op |-> "none", err |-> NoError, vals |-> <<>>, before |-> EmptyStore]

StoreInit ==
    /\ db \in {EmptyStore} \cup LegacyStores
    /\ sync \in BOOLEAN
    /\ op = "store"
    /\ pc = "closed"
    /\ last = NoOperation
    /\ addr = <<>>
    /\ parsed = NotParsed
    /\ calls = <<>>
    /\ hookOk = TRUE
    /\ dbOpens = TRUE
    /\ stmt = 0
    /\ raised = ""

\* db = setup_database(path, sync)
Open ==
    /\ \E s \in BOOLEAN :
        /\ sync' = s
        /\ db' = setup_database(db, s)
    /\ pc' = IF db'.err = NoError THEN "open" ELSE pc
    /\ last' = [op |-> "setup", err |-> db'.err, vals |-> <<>>, before |-> db]
    /\ UNCHANGED <<op, addr, parsed, calls, hookOk, dbOpens, stmt, raised>>

\* an insert into the unihash table through the handle
InsertUnihash ==
    /\ pc = "open"
    /\ RowCount(db) < MaxRows
    /\ \E v \in UnihashInputs :
        /\ db' = InsertRow(db, "unihashes_v2", v)
        /\ last' = [op |-> "insert_unihash", err |-> db'.err, vals |-> v, before |-> db]
    /\ UNCHANGED <<op, addr, pc, parsed, calls, hookOk, dbOpens, sync, stmt, raised>>

\* an insert into the outhash table through the handle
InsertOuthash ==
    /\ pc = "open"
    /\ RowCount(db) < MaxRows
    /\ \E v \in OuthashInputs :
        /\ db' = InsertRow(db, "outhashes_v2", v)
        /\ last' = [op |-> "insert_outhash", err |-> db'.err, vals |-> v, before |-> db]
    /\ UNCHANGED <<op, addr, pc, parsed, calls, hookOk, dbOpens, sync, stmt, raised>>

StoreNext == Open \/ InsertUnihash \/ InsertOuthash

Spec == StoreInit /\ [][StoreNext]_vars

----------------------------------------------------------------------------
(* Properties of the store *)

CurrentTables == {"unihashes_v2", "outhashes_v2"}

\* rows of table t in store d, none when the table does not exist
RowsOf(d, t) == IF t \in DOMAIN d.rows THEN d.rows[t] ELSE {}

\* indexes of store d that lie on the given table over the given columns
IndexesOver(d, table, columns) ==
    {i \in DOMAIN d.indexes : d.indexes[i].table = table /\ d.indexes[i].columns = columns}

\* the current generation of the schema is there, each object once
CurrentSchemaOnce(d) ==
    /\ CurrentTables \subseteq DOMAIN d.tables
    /\ d.tables["unihashes_v2"].columns = <<"method", "taskhash", "unihash">>
    /\ d.tables["outhashes_v2"].columns[3] = "outhash"
    /\ IndexesOver(d, "unihashes_v2", <<"method", "taskhash">>) = {"taskhash_lookup_v3"}
    /\ IndexesOver(d, "outhashes_v2", <<"method", "outhash">>) = {"outhash_lookup_v3"}

\* C1: every setup_database call against the path, whatever opens and accepted
\* inserts came before it, ends without error, leaves one unihash table, one
\* outhash table and one of each current index, and keeps every row the two
\* tables held before it.
C1_OpenIsIdempotent ==
    last.op = "setup" =>
        /\ last.err = NoError
        /\ CurrentSchemaOnce(db)
        /\ \A t \in CurrentTables : RowsOf(last.before, t) \subseteq RowsOf(db, t)

\* a second or later open of a store whose two tables both hold rows
C1_Witness ==
    /\ last.op = "setup"
    /\ CurrentTables \subseteq DOMAIN last.before.tables
    /\ RowsOf(last.before, "unihashes_v2") # {}
    /\ RowsOf(last.before, "outhashes_v2") # {}

SameOn(r, v, cols) == \A c \in cols : r[c] = v[c]

\* C2: no two rows of the unihash table share (method, taskhash), and an
\* insert whose (method, taskhash) is that of an existing row is rejected and
\* changes nothing, also when its unihash differs.
C2_UnihashPairUnique ==
    /\ \A r1, r2 \in RowsOf(db, "unihashes_v2") :
          SameOn(r1, r2, {"method", "taskhash"}) => r1 = r2
    /\ (last.op = "insert_unihash"
        /\ \E r \in RowsOf(last.before, "unihashes_v2") : SameOn(r, last.vals, {"method", "taskhash"}))
       => (last.err # NoError /\ db.rows = last.before.rows)

\* an insert that repeats the (method, taskhash) of a row with another unihash
C2_Witness ==
    /\ last.op = "insert_unihash"
    /\ \E r \in RowsOf(last.before, "unihashes_v2") :
          SameOn(r, last.vals, {"method", "taskhash"}) /\ r["unihash"] # last.vals["unihash"]
    /\ last.vals["unihash"] # NULL

OuthashKey == {"method", "taskhash", "outhash"}

\* C3: no two rows of the outhash table share (method, taskhash, outhash); an
\* insert that repeats the triple of an existing row is rejected; an insert of
\* non-NULL values that differs from every existing row in at least one of
\* the three columns is accepted, whatever proper subset it shares with a row.
C3_OuthashTripleUnique ==
    /\ \A r1, r2 \in RowsOf(db, "outhashes_v2") : SameOn(r1, r2, OuthashKey) => r1 = r2
    /\ last.op = "insert_outhash" =>
          /\ (\E r \in RowsOf(last.before, "outhashes_v2") : SameOn(r, last.vals, OuthashKey))
                => (last.err # NoError /\ db.rows = last.before.rows)
          /\ ((\A c \in OuthashKey : last.vals[c] # NULL)
              /\ \A r \in RowsOf(last.before, "outhashes_v2") : ~SameOn(r, last.vals, OuthashKey))
                => /\ last.err = NoError
                   /\ \E r \in RowsOf(db, "outhashes_v2") :
                         /\ r \notin RowsOf(last.before, "outhashes_v2")
                         /\ SameOn(r, last.vals, Range(OUTHASH_TABLE_COLUMNS))

\* an accepted insert that shares (method, taskhash) with an existing row
C3_Witness ==
    /\ last.op = "insert_outhash"
    /\ last.err = NoError
    /\ \E r \in RowsOf(last.before, "outhashes_v2") :
          SameOn(r, last.vals, {"method", "taskhash"}) /\ r["outhash"] # last.vals["outhash"]

\* C10: after a setup_database call that succeeded, from a fresh, a current
\* or a legacy store: none of the four old index names and no tasks_v2 table
\* exist, the index over (method, taskhash) on the unihash table and the one
\* over (method, outhash) on the outhash table exist, and the unihash and
\* outhash tables hold exactly the rows they held before (the rows of
\* tasks_v2 are moved nowhere).
C10_MigrationFrame ==
    (last.op = "setup" /\ last.err = NoError) =>
        /\ LegacyIndexes \cap DOMAIN db.indexes = {}
        /\ LegacyTable \notin DOMAIN db.tables
        /\ LegacyTable \notin DOMAIN db.rows
        /\ IndexesOver(db, "unihashes_v2", <<"method", "taskhash">>) # {}
        /\ IndexesOver(db, "outhashes_v2", <<"method", "outhash">>) # {}
        /\ \A t \in CurrentTables : RowsOf(db, t) = RowsOf(last.before, t)

\* a successful open of a store that held tasks_v2 with a row and an old index
C10_Witness ==
    /\ last.op = "setup"
    /\ last.err = NoError
    /\ RowsOf(last.before, LegacyTable) # {}
    /\ LegacyIndexes \cap DOMAIN last.before.indexes # {}
    /\ OlderTable \in DOMAIN last.before.tables

----------------------------------------------------------------------------
(* Specification of parse_address: one call on each address text *)

\* texts put in front of a tail: the three prefixes, a unix prefix followed
\* by a websocket one, and prefixes cut short by a character
AddressHeads ==
    {UNIX_PREFIX, WS_PREFIX, WSS_PREFIX, UNIX_PREFIX \o WS_PREFIX,
     SubSeq(UNIX_PREFIX, 1, 6), SubSeq(WS_PREFIX, 1, 4), SubSeq(WSS_PREFIX, 1, 5),
     SubSeq(WS_PREFIX, 1, 3)}

Addresses == StrUpTo(MaxLen) \cup {h \o b : h \in AddressHeads, b \in StrUpTo(MaxTail)}

ParseInit ==
    /\ addr \in Addresses
    /\ op = "parse"
    /\ pc = "call"
    /\ parsed = NotParsed
    /\ calls = <<>>
    /\ hookOk = TRUE
    /\ dbOpens = TRUE
    /\ stmt = 0
    /\ raised = ""
    /\ sync = TRUE
    /\ db = EmptyStore
    /\ last = NoOperation

\* parsed = parse_address(addr)
ParseAddress ==
    /\ op = "parse"
    /\ pc = "call"
    /\ parsed' = parse_address(addr)
    /\ pc' = "done"
    /\ UNCHANGED <<op, addr, calls, hookOk, dbOpens, sync, db, stmt, raised, last>>

ParseNext == ParseAddress

SpecParse == ParseInit /\ [][ParseNext]_vars

----------------------------------------------------------------------------
(* Properties of parse_address *)

\* s is p followed by some text
Begins(s, p) == \E n \in 0..Len(s) : SubSeq(s, 1, n) = p

\* the text r with s = p \o r
After(s, p) == [i \in 1..(Len(s) - Len(p)) |-> s[Len(p) + i]]

NoPrefix(s) == ~Begins(s, UNIX_PREFIX) /\ ~Begins(s, WS_PREFIX) /\ ~Begins(s, WSS_PREFIX)

ColonCount(s) == Cardinality(Positions(s, ":"))

\* C4: a text that begins with unix:// parses to (Unix, the text after the
\* prefix), whatever that text holds; any other text that begins with ws://
\* or wss:// parses to (WebSocket, the whole text); neither raises nor gives Tcp.
C4_PrefixBranches ==
    pc = "done" =>
        /\ Begins(addr, UNIX_PREFIX)
              => parsed = Returned(ADDR_TYPE_UNIX, <<After(addr, UNIX_PREFIX)>>)
        /\ (~Begins(addr, UNIX_PREFIX) /\ (Begins(addr, WS_PREFIX) \/ Begins(addr, WSS_PREFIX)))
              => parsed = Returned(ADDR_TYPE_WS, <<addr>>)
        /\ ~NoPrefix(addr) => (parsed.exc = "none" /\ parsed.typ # ADDR_TYPE_TCP)

\* a unix address whose path is itself a websocket address with a colon
C4_Witness ==
    /\ pc = "done"
    /\ Begins(addr, UNIX_PREFIX \o WS_PREFIX)
    /\ Positions(After(addr, UNIX_PREFIX \o WS_PREFIX), ":") # {}
    /\ parsed.typ = ADDR_TYPE_UNIX

\* s is [host]:port with a host free of ] and a port of decimal digits
BracketedForm(s, host, port) ==
    /\ s = <<"[">> \o host \o <<"]", ":">> \o port
    /\ Positions(host, "]") = {}
    /\ AllDigits(port)

PortSegment(s) ==
    IF ReMatch(s).matched THEN ReMatch(s).port
    ELSE SubSeq(s, Max(Positions(s, ":") \cup {0}) + 1, Len(s))

\* C6: every Tcp result carries a port >= 0, and a text whose port segment is
\* not a non-negative number raises.
C6_PortNonNegative ==
    (pc = "done" /\ NoPrefix(addr)) =>
        /\ parsed.exc = "none" => parsed.a[2] >= 0
        /\ ~(PyInt(PortSegment(addr)).ok /\ PyInt(PortSegment(addr)).val >= 0)
              => parsed.exc = "ValueError"

----------------------------------------------------------------------------
(* urlparse, for the texts create_server hands it *)

\* longest text following ws:// or wss:// in a factory call
MaxUrl == 3
\* longest address without a prefix in a factory call
MaxAddr == 4

\* the characters of those texts. None of them is upper case, a bracket or
\* an @, so hostname's lower() and its userinfo and IPv6 handling change nothing
UrlAlphabet == {"a", ":", "1"}

\* an optional value: None, or a value
None == [none |-> TRUE, v |-> <<>>]
Some(x) == [none |-> FALSE, v |-> x]

\* urlparse(url).netloc: what follows scheme:// up to the first / ? or #
UrlNetloc(url) ==
    LET i == Min(Positions(url, ":"))
        rest == From(url, i + 2)
        stops == {j \in 1..Len(rest) : rest[j] \in {"/", "?", "#"}}
    IN IF stops = {} THEN rest ELSE SubSeq(rest, 1, Min(stops) - 1)

\* urlparse(url).hostname: the netloc up to its first colon, None when empty
UrlHostname(url) ==
    LET host == Split(UrlNetloc(url), ":")[1]
    IN IF host = <<>> THEN None ELSE Some(host)

\* urlparse(url).port: [ok, port]; the text after the first colon of the
\* netloc, None when empty or absent, ValueError (ok = FALSE) when it is not
\* decimal digits or is above 65535
UrlPort(url) ==
    LET n == UrlNetloc(url)
        ps == Positions(n, ":")
        text == IF ps = {} THEN <<>> ELSE From(n, Min(ps))
    IN IF text = <<>> THEN [ok |-> TRUE, port |-> None]
       ELSE IF AllDigits(text) /\ DecimalValue(text) <= 65535
       THEN [ok |-> TRUE, port |-> Some(DecimalValue(text))]
       ELSE [ok |-> FALSE, port |-> None]

----------------------------------------------------------------------------
(* Specification of the factories: one call of create_server, create_client *)
(* or create_async_client                                                   *)

UrlTails == UNION {[1..k -> UrlAlphabet] : k \in 0..MaxUrl}

PlainAddresses == UNION {[1..k -> {"[", "]", ":", "1", "a"}] : k \in 0..MaxAddr}

FactoryAddresses ==
    {h \o b : h \in {UNIX_PREFIX, WS_PREFIX, WSS_PREFIX}, b \in UrlTails} \cup PlainAddresses

\* the stores a server is created on: a new file, one left by the older
\* generations, one already set up
FactoryStores ==
    {EmptyStore,
     LegacyStore({LegacyTable, OlderTable}, {[id |-> 1, method |-> "a"]},
                 [i \in {"taskhash_lookup", "taskhash_lookup_v2"} |->
                     IF i = "taskhash_lookup" THEN OlderTable ELSE LegacyTable]),
     setup_database(EmptyStore, TRUE)}

FactoryInit ==
    /\ op \in {"server", "client", "async"}
    /\ addr \in FactoryAddresses
    /\ dbOpens \in (IF op = "server" THEN BOOLEAN ELSE {TRUE})
    /\ sync \in (IF op = "server" THEN BOOLEAN ELSE {TRUE})
    /\ db \in (IF op = "server" THEN FactoryStores ELSE {EmptyStore})
    /\ pc = IF op = "server" THEN "connect" ELSE "parse"
    /\ parsed = NotParsed
    /\ calls = <<>>
    /\ hookOk = TRUE
    /\ stmt = 0
    /\ raised = ""
    /\ last = NoOperation

\* setup_database returns once its cursor has run the first statements only
SetupDoneEarly(n, s) == n >= 2

\* setup_database returns db once its cursor has run every statement
SetupDone(n, s) == n = Len(SetupStatements(s))

\* create_server: db = sqlite3.connect(dbname) inside setup_database
ServerConnect ==
    /\ op = "server"
    /\ pc = "connect"
    /\ IF dbOpens
       THEN /\ db' = Connect(db)
            /\ pc' = "execute"
            /\ raised' = raised
       ELSE /\ db' = db
            /\ pc' = "raised"
            /\ raised' = "OperationalError"
    /\ UNCHANGED <<op, addr, parsed, calls, hookOk, dbOpens, sync, stmt, last>>

\* create_server: the next cursor.execute of setup_database
ServerExecute ==
    /\ op = "server"
    /\ pc = "execute"
    /\ ~SetupDone(stmt, sync)
    /\ db' = Execute(db, SetupStatements(sync)[stmt + 1])
    /\ IF db'.err = NoError
       THEN /\ stmt' = stmt + 1
            /\ pc' = IF SetupDone(stmt + 1, sync) THEN "construct" ELSE "execute"
            /\ raised' = raised
       ELSE /\ stmt' = stmt
            /\ pc' = "raised"
            /\ raised' = "OperationalError"
    /\ UNCHANGED <<op, addr, parsed, calls, hookOk, dbOpens, sync, last>>

\* create_server: s = server.Server(db, upstream=upstream, read_only=read_only)
ServerConstruct ==
    /\ op = "server"
    /\ pc = "construct"
    /\ pc' = "parse"
    /\ UNCHANGED <<op, addr, parsed, calls, hookOk, dbOpens, sync, db, stmt, raised, last>>

\* (typ, a) = parse_address(addr), in each of the three factories
FactoryParse ==
    /\ pc = "parse"
    /\ parsed' = parse_address(addr)
    /\ IF parsed'.exc = "none"
       THEN pc' = "dispatch" /\ raised' = raised
       ELSE pc' = "raised" /\ raised' = parsed'.exc
    /\ UNCHANGED <<op, addr, calls, hookOk, dbOpens, sync, db, stmt, last>>

Call(hook, args) == [hook |-> hook, args |-> args]

\* the if/elif/else of create_server: the call it makes, or the ValueError
\* that url.port raises before any call
ServerDispatch ==
    /\ op = "server"
    /\ pc = "dispatch"
    /\ IF parsed.typ = ADDR_TYPE_UNIX
       THEN /\ calls' = Append(calls, Call("start_unix_server", parsed.a))
            /\ pc' = "in_hook"
            /\ raised' = raised
       ELSE IF parsed.typ = ADDR_TYPE_WS
       THEN IF UrlPort(parsed.a[1]).ok
            THEN /\ calls' = Append(calls, Call("start_websocket_server",
                                   <<UrlHostname(parsed.a[1]), UrlPort(parsed.a[1]).port>>))
                 /\ pc' = "in_hook"
                 /\ raised' = raised
            ELSE /\ calls' = calls
                 /\ pc' = "raised"
                 /\ raised' = "ValueError"
       ELSE /\ calls' = Append(calls, Call("start_tcp_server", parsed.a))
            /\ pc' = "in_hook"
            /\ raised' = raised
    /\ UNCHANGED <<op, addr, parsed, hookOk, dbOpens, sync, db, stmt, last>>

\* every address type connected through the tcp hook
ConnectHookAlwaysTcp(typ) == "connect_tcp"

\* the hook create_client and create_async_client call for an address type
ConnectHook(typ) ==
    IF typ = ADDR_TYPE_UNIX THEN "connect_unix"
    ELSE IF typ = ADDR_TYPE_WS THEN "connect_websocket"
    ELSE "connect_tcp"

\* the if/elif/else of create_client
ClientDispatch ==
    /\ op = "client"
    /\ pc = "dispatch"
    /\ calls' = Append(calls, Call(ConnectHook(parsed.typ), parsed.a))
    /\ pc' = "in_hook"
    /\ UNCHANGED <<op, addr, parsed, hookOk, dbOpens, sync, db, stmt, raised, last>>

\* the if/elif/else of create_async_client, up to its await
AsyncDispatch ==
    /\ op = "async"
    /\ pc = "dispatch"
    /\ calls' = Append(calls, Call(ConnectHook(parsed.typ), parsed.a))
    /\ pc' = "in_hook"
    /\ UNCHANGED <<op, addr, parsed, hookOk, dbOpens, sync, db, stmt, raised, last>>

\* the collaborator's start or connect call returns: return s / return c
HookReturns ==
    /\ pc = "in_hook"
    /\ pc' = "returned"
    /\ UNCHANGED <<op, addr, parsed, calls, hookOk, dbOpens, sync, db, stmt, raised, last>>

\* the collaborator's start or connect call raises: the exception passes
\* through the factory
HookRaises ==
    /\ pc = "in_hook"
    /\ hookOk' = FALSE
    /\ pc' = "raised"
    /\ raised' = "HookError"
    /\ UNCHANGED <<op, addr, parsed, calls, dbOpens, sync, db, stmt, last>>

FactoryNext ==
    \/ ServerConnect
    \/ ServerExecute
    \/ ServerConstruct
    \/ FactoryParse
    \/ ServerDispatch
    \/ ClientDispatch
    \/ AsyncDispatch
    \/ HookReturns
    \/ HookRaises

SpecFactory == FactoryInit /\ [][FactoryNext]_vars

----------------------------------------------------------------------------
(* Properties of the factories *)

Finished == pc \in {"returned", "raised"}

StartHooks == {"start_unix_server", "start_websocket_server", "start_tcp_server"}

\* the one call a factory is to make for a parsed address
MatchingCall(o, p) ==
    IF o = "server"
    THEN IF p.typ = ADDR_TYPE_UNIX THEN Call("start_unix_server", <<p.a[1]>>)
         ELSE IF p.typ = ADDR_TYPE_WS
         THEN Call("start_websocket_server", <<UrlHostname(p.a[1]), UrlPort(p.a[1]).port>>)
         ELSE Call("start_tcp_server", <<p.a[1], p.a[2]>>)
    ELSE IF p.typ = ADDR_TYPE_UNIX THEN Call("connect_unix", <<p.a[1]>>)
         ELSE IF p.typ = ADDR_TYPE_WS THEN Call("connect_websocket", <<addr>>)
         ELSE Call("connect_tcp", <<p.a[1], p.a[2]>>)

\* create_server was given a websocket address whose port urlparse rejects
UnreadableUrlPort == op = "server" /\ parsed.typ = ADDR_TYPE_WS /\ ~UrlPort(addr).ok

SetupComplete(d, s) ==
    /\ CurrentTables \subseteq DOMAIN d.tables
    /\ d.journal_mode = "WAL"
    /\ d.synchronous = (IF s THEN "NORMAL" ELSE "OFF")
    /\ LegacyIndexes \cap DOMAIN d.indexes = {}
    /\ LegacyTable \notin DOMAIN d.tables
    /\ IndexesOver(d, "unihashes_v2", <<"method", "taskhash">>) # {}
    /\ IndexesOver(d, "outhashes_v2", <<"method", "outhash">>) # {}

\* C9: in create_server a listener is started only once setup_database has
\* finished every step on the store; when the store cannot be opened or the
\* address does not parse, the call ends by raising and no listener was started.
C9_SetupBeforeListen ==
    op = "server" =>
        /\ (\E i \in 1..Len(calls) : calls[i].hook \in StartHooks)
              => (dbOpens /\ stmt = Len(SetupStatements(sync)) /\ SetupComplete(db, sync))
        /\ (Finished /\ (~dbOpens \/ parse_address(addr).exc # "none"))
              => (pc = "raised" /\ raised # "" /\ calls = <<>>)

\* a listener started on a store that came from the older generations
C9_Witness ==
    /\ op = "server"
    /\ pc = "returned"
    /\ Len(calls) = 1
    /\ OlderTable \in DOMAIN db.tables

====
